---- MODULE Spec2Model ----
(***************************************************************************)
(* Model of the Home page component of pdf-merger (app/page.js): the       *)
(* candidate file list, the error slot and its clear timers, the drag      *)
(* flag, the in-flight flag and the asynchronous merge submission.         *)
(*                                                                         *)
(* Spec      : the handlers invoked through the rendered page: a button    *)
(*             that is disabled or not rendered delivers no click.         *)
(* FairSpec  : Spec, where every request that was sent settles.            *)
(* SpecCalls : the handlers called as functions, with any argument.        *)
(***************************************************************************)
EXTENDS Integers, Sequences, FiniteSets, TLC

VARIABLES
    files,       \* useState([])    : the candidate list (line 12)
    isLoading,   \* useState(false) : the in-flight flag (line 13)
    error,       \* useState(null)  : the error slot (line 14)
    isDragging,  \* useState(false) : the active-drag flag (line 15)
    timers,      \* number of pending setTimeout(() => setError(null), 3000)
    calls,       \* the mergePDFs invocations suspended at an await
    openUrls,    \* object URLs created and not yet revoked
    act,         \* the handler or callback that ran in the last step, with its input
    out          \* the effects of the last step on the outside world

vars == <<files, isLoading, error, isDragging, timers, calls, openUrls, act, out>>

---------------------------------------------------------------------------
\* Bounds of the model

MaxFiles == 2
MaxBatch == 2
MaxTimers == 2
MaxCalls == 2

---------------------------------------------------------------------------
\* JavaScript values that reach the error slot or the `error` field of a body

JsNull == [t |-> "null", v |-> ""]
JsUndefined == [t |-> "undefined", v |-> ""]
JsTrue == [t |-> "boolean", v |-> "true"]
Str(s) == [t |-> "string", v |-> s]

\* ToBoolean, as used by `||`
Truthy(x) ==
    CASE x.t = "string" -> x.v # ""
      [] x.t = "boolean" -> x.v = "true"
      [] OTHER -> FALSE

\* a || b
JsOr(a, b) == IF Truthy(a) THEN a ELSE b

\* ToString
JsToString(x) ==
    CASE x.t = "string" -> x.v
      [] x.t = "boolean" -> x.v
      [] x.t = "null" -> "null"
      [] OTHER -> "undefined"

\* (new Error(x)).message
ErrorMessage(x) == IF x.t = "undefined" THEN "" ELSE JsToString(x)

---------------------------------------------------------------------------
\* File handles: a name and a declared MIME type

PdfType == "application/pdf"

File(n, ty) == [name |-> n, type |-> ty]

AllFiles == {File("a.pdf", PdfType), File("b.pdf", PdfType), File("c.png", "image/png")}

Batches == UNION {[1..n -> AllFiles] : n \in 0..MaxBatch}

\* Array.prototype.filter: keep[k] is what the callback returns for the k-th
\* element (the callback's 0-based index argument is k - 1)
RECURSIVE FilterFrom(_, _, _)
FilterFrom(s, keep, k) ==
    IF k > Len(s) THEN <<>>
    ELSE IF keep[k] THEN <<s[k]>> \o FilterFrom(s, keep, k + 1)
    ELSE FilterFrom(s, keep, k + 1)

Filter(s, keep) == FilterFrom(s, keep, 1)

---------------------------------------------------------------------------
\* Messages

OnlyPdfMsg == "Only PDF files are accepted"
EmptyMsg == "Please add PDF files to merge"
GenericMsg == "Failed to merge PDFs"
\* messages of errors thrown by the platform (their text is the engine's)
\* fetch() and response.blob() reject with a TypeError when the network fails
NetworkErrorMsg == "Failed to fetch"
JsonSyntaxMsg == "Unexpected token < in JSON at position 0"
NullPropertyMsg == "Cannot read properties of null (reading 'error')"

---------------------------------------------------------------------------
\* Bookkeeping of the last step

NoOut == [requests |-> <<>>, downloads |-> <<>>, created |-> 0, revoked |-> 0]

Act(op, batch, index, info, val) ==
    [op |-> op, batch |-> batch, index |-> index, info |-> info, val |-> val]

Init ==
    /\ files = <<>>
    /\ isLoading = FALSE
    /\ error = JsNull
    /\ isDragging = FALSE
    /\ timers = 0
    /\ calls = <<>>
    /\ openUrls = 0
    /\ act = Act("init", <<>>, -1, "", JsUndefined)
    /\ out = NoOut

---------------------------------------------------------------------------
\* File intake (lines 19-39)

IsPdf(file) == file.type = PdfType

\* mutant of pdfFiles: the type filter is left out
pdfFiles_unfiltered(selectedFiles) == selectedFiles

\* selectedFiles.filter(file => file.type === 'application/pdf')
pdfFiles(selectedFiles) ==
    Filter(selectedFiles, [k \in 1..Len(selectedFiles) |-> IsPdf(selectedFiles[k])])

\* the intake stays within the bounds of the model
IntakeWithinBounds(fileList) ==
    /\ Len(files) + Len(pdfFiles(fileList)) <= MaxFiles
    /\ Len(pdfFiles(fileList)) # Len(fileList) => timers < MaxTimers

\* mutant of validateAndAddFiles: the setTimeout of line 29 is left out
validateAndAddFiles_noTimer(fileList) ==
    /\ IF Len(pdfFiles(fileList)) # Len(fileList)
          THEN error' = Str(OnlyPdfMsg)
          ELSE UNCHANGED error
    /\ UNCHANGED timers
    /\ files' = files \o pdfFiles(fileList)

validateAndAddFiles(fileList) ==
    LET selectedFiles == fileList
    IN  /\ IF Len(pdfFiles(selectedFiles)) # Len(selectedFiles)
              THEN /\ error' = Str(OnlyPdfMsg)
                   /\ timers' = timers + 1
              ELSE UNCHANGED <<error, timers>>
        /\ files' = files \o pdfFiles(selectedFiles)

\* onChange of the file input
handleFileChange ==
    \E fileList \in Batches :
        /\ IntakeWithinBounds(fileList)
        /\ validateAndAddFiles(fileList)
        /\ act' = Act("handleFileChange", fileList, -1, "", JsUndefined)
        /\ out' = NoOut
        /\ UNCHANGED <<isLoading, isDragging, calls, openUrls>>

---------------------------------------------------------------------------
\* Drag and drop (lines 41-74)

\* what e.relatedTarget of a dragleave can be
Nodes == {"none", "dropArea", "child", "outside"}

\* mutant of DropAreaContains: no containment check, every dragleave counts as
\* leaving the drop area
DropAreaContains_never(node) == FALSE

\* dropAreaRef.current.contains(node): a node contains itself and its descendants
DropAreaContains(node) == node \in {"dropArea", "child"}

\* mutant of handleDragEnter: a new drag also dismisses the error banner
handleDragEnter_clearsError ==
    /\ isDragging' = TRUE
    /\ error' = JsNull
    /\ act' = Act("handleDragEnter", <<>>, -1, "", JsUndefined)
    /\ out' = NoOut
    /\ UNCHANGED <<files, isLoading, timers, calls, openUrls>>

handleDragEnter ==
    /\ isDragging' = TRUE
    /\ act' = Act("handleDragEnter", <<>>, -1, "", JsUndefined)
    /\ out' = NoOut
    /\ UNCHANGED <<files, isLoading, error, timers, calls, openUrls>>

handleDragOver ==
    /\ isDragging' = (IF ~isDragging THEN TRUE ELSE isDragging)
    /\ act' = Act("handleDragOver", <<>>, -1, "", JsUndefined)
    /\ out' = NoOut
    /\ UNCHANGED <<files, isLoading, error, timers, calls, openUrls>>

handleDragLeave ==
    \E relatedTarget \in Nodes :
        /\ isDragging' = (IF ~DropAreaContains(relatedTarget) THEN FALSE ELSE isDragging)
        /\ act' = Act("handleDragLeave", <<>>, -1, relatedTarget, JsUndefined)
        /\ out' = NoOut
        /\ UNCHANGED <<files, isLoading, error, timers, calls, openUrls>>

\* mutant of handleDrop: setIsDragging(false) of line 69 is left out
handleDrop_keepsDragging ==
    \E dropped \in Batches :
        /\ IntakeWithinBounds(dropped)
        /\ IF Len(dropped) > 0
              THEN validateAndAddFiles(dropped)
              ELSE UNCHANGED <<files, error, timers>>
        /\ act' = Act("handleDrop", dropped, -1, "", JsUndefined)
        /\ out' = NoOut
        /\ UNCHANGED <<isLoading, isDragging, calls, openUrls>>

handleDrop ==
    \E dropped \in Batches :
        /\ IntakeWithinBounds(dropped)
        /\ isDragging' = FALSE
        /\ IF Len(dropped) > 0
              THEN validateAndAddFiles(dropped)
              ELSE UNCHANGED <<files, error, timers>>
        /\ act' = Act("handleDrop", dropped, -1, "", JsUndefined)
        /\ out' = NoOut
        /\ UNCHANGED <<isLoading, calls, openUrls>>

---------------------------------------------------------------------------
\* List management (lines 76-82)

\* mutant of withoutIndex: prev.splice(index, 1), where a negative index counts
\* from the end of the array
withoutIndex_splice(prev, index) ==
    LET start == IF index < 0
                    THEN (IF Len(prev) + index < 0 THEN 0 ELSE Len(prev) + index)
                    ELSE index
    IN  [k \in 1..(IF start < Len(prev) THEN Len(prev) - 1 ELSE Len(prev)) |->
            IF k <= start THEN prev[k] ELSE prev[k + 1]]

\* prev.filter((_, i) => i !== index)
withoutIndex(prev, index) == Filter(prev, [k \in 1..Len(prev) |-> (k - 1) # index])

\* setFiles(prev => ...) of removeFile
removeFile(index) == files' = withoutIndex(files, index)

\* mutant of clearAllFiles: the list is kept while a submission is in flight
clearAllFiles_unlessLoading == files' = (IF isLoading THEN files ELSE <<>>)

\* setFiles([]) of clearAllFiles
clearAllFiles == files' = <<>>

\* the indices a caller can pass to removeFile: in range and out of range
Indices == -1..(MaxFiles + 1)

\* onClick of a remove button
clickRemove(index) ==
    /\ removeFile(index)
    /\ act' = Act("removeFile", <<>>, index, "", JsUndefined)
    /\ out' = NoOut
    /\ UNCHANGED <<isLoading, error, isDragging, timers, calls, openUrls>>

\* onClick of the Clear All button
clickClearAll ==
    /\ clearAllFiles
    /\ act' = Act("clearAllFiles", <<>>, -1, "", JsUndefined)
    /\ out' = NoOut
    /\ UNCHANGED <<isLoading, error, isDragging, timers, calls, openUrls>>

---------------------------------------------------------------------------
\* The timer callback () => setError(null) (lines 29, 89)

timerFires ==
    /\ timers > 0
    /\ timers' = timers - 1
    /\ error' = JsNull
    /\ act' = Act("timerFires", <<>>, -1, "", JsUndefined)
    /\ out' = NoOut
    /\ UNCHANGED <<files, isLoading, isDragging, calls, openUrls>>

---------------------------------------------------------------------------
\* Merge submission (lines 84-138)

DownloadName == "merged.pdf"

\* mutant of formData: the parts are built from the end of the list
formData_reversed(list) ==
    [k \in 1..Len(list) |-> [field |-> "files", value |-> list[Len(list) + 1 - k]]]

\* formData.append('files', file) for each file of the list, in list order
formData(list) == [k \in 1..Len(list) |-> [field |-> "files", value |-> list[k]]]

\* fetch(`${API_URL}/api/merge`, {method: 'POST', body: formData})
Request(body) == [method |-> "POST", path |-> "/api/merge", body |-> body]

\* mutant of hasNoFiles: the guard of lines 87-91 never takes the early return
hasNoFiles_never(list) == FALSE

\* files.length === 0
hasNoFiles(list) == Len(list) = 0

\* mergePDFs up to its first await
mergePDFs ==
    IF hasNoFiles(files)
       THEN /\ timers < MaxTimers
            /\ error' = Str(EmptyMsg)
            /\ timers' = timers + 1
            /\ out' = NoOut
            /\ UNCHANGED <<isLoading, calls>>
       ELSE /\ Len(calls) < MaxCalls
            /\ isLoading' = TRUE
            /\ error' = JsNull
            /\ calls' = Append(calls, [pc |-> "fetch", request |-> Request(formData(files))])
            /\ out' = [NoOut EXCEPT !.requests = <<Request(formData(files))>>]
            /\ UNCHANGED timers

\* onClick of the Merge & Download button
clickMerge ==
    /\ mergePDFs
    /\ act' = Act("mergePDFs", <<>>, -1, IF hasNoFiles(files) THEN "empty" ELSE "submit",
                  JsUndefined)
    /\ UNCHANGED <<files, isDragging, openUrls>>

RemoveAt(s, i) == SubSeq(s, 1, i - 1) \o SubSeq(s, i + 1, Len(s))

\* mutant of catchAndFinally: the failure path clears the list as the success path does
catchAndFinally_clearing(i, message) ==
    /\ error' = Str(message)
    /\ isLoading' = FALSE
    /\ calls' = RemoveAt(calls, i)
    /\ out' = NoOut
    /\ files' = <<>>
    /\ UNCHANGED <<timers, openUrls>>

\* mutant of catchAndFinally: setIsLoading(false) is not in a finally block, so
\* a failure skips it
catchAndFinally_noFinally(i, message) ==
    /\ error' = Str(message)
    /\ calls' = RemoveAt(calls, i)
    /\ out' = NoOut
    /\ UNCHANGED <<files, isLoading, timers, openUrls>>

\* catch (err) { setError(err.message) } finally { setIsLoading(false) }
catchAndFinally(i, message) ==
    /\ error' = Str(message)
    /\ isLoading' = FALSE
    /\ calls' = RemoveAt(calls, i)
    /\ out' = NoOut
    /\ UNCHANGED <<files, timers, openUrls>>

\* mutant of successTail: the optional clearAllFiles() of line 132 is left out
successTail_keepFiles(i) ==
    /\ openUrls' = (openUrls + 1) - 1
    /\ out' = [NoOut EXCEPT !.downloads = <<DownloadName>>, !.created = 1, !.revoked = 1]
    /\ isLoading' = FALSE
    /\ calls' = RemoveAt(calls, i)
    /\ UNCHANGED <<files, error, timers>>

\* mutant of successTail: window.URL.revokeObjectURL(url) of line 128 is left out
successTail_noRevoke(i) ==
    /\ openUrls' = openUrls + 1
    /\ out' = [NoOut EXCEPT !.downloads = <<DownloadName>>, !.created = 1]
    /\ clearAllFiles
    /\ isLoading' = FALSE
    /\ calls' = RemoveAt(calls, i)
    /\ UNCHANGED <<error, timers>>

\* lines 113-132 and the finally block: the download, then clearAllFiles()
successTail(i) ==
    /\ openUrls' = (openUrls + 1) - 1
    /\ out' = [NoOut EXCEPT !.downloads = <<DownloadName>>, !.created = 1, !.revoked = 1]
    /\ clearAllFiles
    /\ isLoading' = FALSE
    /\ calls' = RemoveAt(calls, i)
    /\ UNCHANGED <<error, timers>>

\* how the promise of fetch() settles
FetchOutcomes == {"reject", "ok", "notok"}

\* await fetch(...) returns or throws
fetchSettles ==
    \E i \in 1..Len(calls), r \in FetchOutcomes :
        /\ calls[i].pc = "fetch"
        /\ CASE r = "reject" -> catchAndFinally(i, NetworkErrorMsg)
             [] r = "ok" ->
                  /\ calls' = [calls EXCEPT ![i].pc = "blob"]
                  /\ out' = NoOut
                  /\ UNCHANGED <<files, isLoading, error, timers, openUrls>>
             [] r = "notok" ->
                  /\ calls' = [calls EXCEPT ![i].pc = "json"]
                  /\ out' = NoOut
                  /\ UNCHANGED <<files, isLoading, error, timers, openUrls>>
        /\ act' = Act("fetchSettles", <<>>, -1, r, JsUndefined)
        /\ UNCHANGED isDragging

\* the `error` field of a body that parses to an object
ErrorFields == {JsUndefined, JsTrue, Str(""), Str("too large")}

\* the bodies of a non-success response: not JSON, the JSON null, a JSON object
FailureBodies ==
    {[kind |-> "invalid", error |-> JsUndefined], [kind |-> "null", error |-> JsUndefined]}
        \cup {[kind |-> "object", error |-> e] : e \in ErrorFields}

\* mutant of thrownMessage: the `error` field of the body is ignored
thrownMessage_generic(body) ==
    CASE body.kind = "invalid" -> JsonSyntaxMsg
      [] body.kind = "null" -> NullPropertyMsg
      [] OTHER -> GenericMsg

\* the message of the error thrown in lines 109-110
thrownMessage(body) ==
    CASE body.kind = "invalid" -> JsonSyntaxMsg
      [] body.kind = "null" -> NullPropertyMsg
      [] OTHER -> ErrorMessage(JsOr(body.error, Str(GenericMsg)))

\* await response.json() returns or throws, then line 110 throws
jsonSettles ==
    \E i \in 1..Len(calls), body \in FailureBodies :
        /\ calls[i].pc = "json"
        /\ catchAndFinally(i, thrownMessage(body))
        /\ act' = Act("jsonSettles", <<>>, -1, body.kind, body.error)
        /\ UNCHANGED isDragging

BlobOutcomes == {"resolve", "reject"}

\* await response.blob() returns or throws
blobSettles ==
    \E i \in 1..Len(calls), r \in BlobOutcomes :
        /\ calls[i].pc = "blob"
        /\ IF r = "resolve" THEN successTail(i) ELSE catchAndFinally(i, NetworkErrorMsg)
        /\ act' = Act("blobSettles", <<>>, -1, r, JsUndefined)
        /\ UNCHANGED isDragging

---------------------------------------------------------------------------
\* The page: the handlers behind the rendered controls (lines 140-285)

\* one remove button is rendered per file of the list (lines 199-212)
RemoveRendered(index) == index \in 0..(Len(files) - 1)

\* the Clear All button is rendered when the list is not empty (lines 187-197)
ClearAllRendered == Len(files) > 0

\* mutant of MergeDisabled: the button is disabled on an empty list only
MergeDisabled_emptyOnly == Len(files) = 0

\* disabled={isLoading || files.length === 0} (line 220)
MergeDisabled == isLoading \/ Len(files) = 0

removeButton == \E index \in Indices : RemoveRendered(index) /\ clickRemove(index)

clearAllButton == ClearAllRendered /\ clickClearAll

mergeButton == ~MergeDisabled /\ clickMerge

Next ==
    \/ handleFileChange
    \/ handleDragEnter
    \/ handleDragOver
    \/ handleDragLeave
    \/ handleDrop
    \/ removeButton
    \/ clearAllButton
    \/ mergeButton
    \/ timerFires
    \/ fetchSettles
    \/ jsonSettles
    \/ blobSettles

Spec == Init /\ [][Next]_vars

\* a request that was sent settles, and so does the reading of its body
FairSpec == Spec /\ WF_vars(fetchSettles) /\ WF_vars(jsonSettles) /\ WF_vars(blobSettles)

---------------------------------------------------------------------------
\* The handlers called as functions: removeFile with any index, clearAllFiles
\* and mergePDFs on any list, the empty one included.  No control of the page
\* delivers these calls on an empty list or with an index out of range; they
\* are the cases the contracts of the handlers speak of.  A second mergePDFs
\* while one is in flight is not called here.

callRemoveFile == \E index \in Indices : clickRemove(index)

callClearAllFiles == clickClearAll

callMergePDFs == ~isLoading /\ clickMerge

NextCalls ==
    \/ handleFileChange
    \/ handleDragEnter
    \/ handleDragOver
    \/ handleDragLeave
    \/ handleDrop
    \/ callRemoveFile
    \/ callClearAllFiles
    \/ callMergePDFs
    \/ timerFires
    \/ fetchSettles
    \/ jsonSettles
    \/ blobSettles

SpecCalls == Init /\ [][NextCalls]_vars

\* the event loop runs the callback of every timer that was armed
FairSpecCalls == SpecCalls /\ WF_vars(timerFires)

---------------------------------------------------------------------------
\* Properties of the handlers.  A property of one step reads the state before
\* the step unprimed, the state after it primed, and in act' and out' the
\* handler that ran, its input and its effects.

\* the positions of the PDF-typed files of a batch
PdfPositions(batch) == {p \in 1..Len(batch) : batch[p].type = "application/pdf"}

\* the position of the k-th PDF-typed file of a batch, from the left
NthPdf(batch, k) ==
    CHOOSE p \in PdfPositions(batch) :
        Cardinality({q \in PdfPositions(batch) : q <= p}) = k

\* the step ran validateAndAddFiles on act'.batch
IntakeStep ==
    \/ act'.op = "handleFileChange"
    \/ act'.op = "handleDrop" /\ Len(act'.batch) > 0

\* C1: after an intake the list is the prior list followed by the PDF-typed
\* files of the batch in their order, and the error 'Only PDF files are
\* accepted' is raised (set, with its clear timer armed) by the intake exactly
\* when some file of the batch is not PDF-typed.
C1_IntakeAppendsPdfs ==
    [][IntakeStep =>
          LET batch == act'.batch
              n == Cardinality(PdfPositions(batch))
          IN  /\ Len(files') = Len(files) + n
              /\ SubSeq(files', 1, Len(files)) = files
              /\ \A k \in 1..n : files'[Len(files) + k] = batch[NthPdf(batch, k)]
              /\ (\E p \in 1..Len(batch) : batch[p].type # "application/pdf")
                    <=> (error' = Str(OnlyPdfMsg) /\ timers' = timers + 1)
              /\ (\A p \in 1..Len(batch) : batch[p].type = "application/pdf")
                    => (error' = error /\ timers' = timers)]_vars

\* a batch of a rejected file followed by a PDF was added to a non-empty list
C1_Witness ==
    /\ act.op = "handleFileChange"
    /\ Len(act.batch) = 2
    /\ act.batch[1].type # "application/pdf"
    /\ act.batch[2].type = "application/pdf"
    /\ Len(files) = 2
    /\ files[2] = act.batch[2]
    /\ error = Str(OnlyPdfMsg)

\* C2: removeFile(i) with 0 <= i < n deletes the element at position i and
\* keeps the others in order; with any other index the list is unchanged.
C2_RemoveFile ==
    [][act'.op = "removeFile" =>
          LET i == act'.index
              n == Len(files)
          IN  IF 0 <= i /\ i < n
                 THEN /\ Len(files') = n - 1
                      /\ \A k \in 1..i : files'[k] = files[k]
                      /\ \A k \in (i + 1)..(n - 1) : files'[k] = files[k + 1]
                 ELSE files' = files]_vars

\* removeFile was called with an index beyond the end of a list of two files
C2_Witness ==
    /\ act.op = "removeFile"
    /\ act.index > Len(files)
    /\ Len(files) = 2
    /\ files[1] # files[2]

\* C3: clearAllFiles leaves the list empty, whatever it held and whether or
\* not a submission is in flight.
C3_ClearAll == [][act'.op = "clearAllFiles" => files' = <<>>]_vars

\* the list was cleared while a submission was in flight
C3_Witness ==
    /\ act.op = "clearAllFiles"
    /\ isLoading
    /\ Len(calls) = 1
    /\ files = <<>>

\* C4: mergePDFs on an empty list issues no request, does not enter the
\* in-flight state and sets the error 'Please add PDF files to merge'.
C4_MergeEmpty ==
    [][(act'.op = "mergePDFs" /\ Len(files) = 0) =>
          /\ out'.requests = <<>>
          /\ calls' = calls
          /\ isLoading' = FALSE
          /\ error' = Str(EmptyMsg)]_vars

\* mergePDFs ran on an empty list
C4_Witness ==
    /\ act.op = "mergePDFs"
    /\ files = <<>>
    /\ error = Str(EmptyMsg)
    /\ timers > 0
    /\ ~isLoading

\* the step ends a submission whose response was a success and was read
SuccessStep == act'.op = "blobSettles" /\ act'.info = "resolve"

\* C5: when a submission ends with a successful response, the list is empty
\* and one download named 'merged.pdf' was triggered; no other step triggers
\* a download.
C5_SuccessClearsAndDownloads ==
    [][IF SuccessStep
          THEN /\ files' = <<>>
               /\ out'.downloads = <<"merged.pdf">>
               /\ Len(calls') = Len(calls) - 1
          ELSE out'.downloads = <<>>]_vars

\* a submission ended with a successful response
C5_Witness ==
    /\ act.op = "blobSettles"
    /\ act.info = "resolve"
    /\ out.downloads = <<"merged.pdf">>
    /\ files = <<>>
    /\ calls = <<>>

\* C6: a non-success response whose body is an object surfaces the body's
\* `error` field when that is a non-empty string, and 'Failed to merge PDFs'
\* when the field is absent.
C6_ErrorField ==
    [][(act'.op = "jsonSettles" /\ act'.info = "object") =>
          /\ (act'.val.t = "string" /\ act'.val.v # "") => error' = act'.val
          /\ act'.val.t = "undefined" => error' = Str("Failed to merge PDFs")]_vars

\* the body {"error": "too large"} was surfaced
C6_Witness ==
    /\ act.op = "jsonSettles"
    /\ act.info = "object"
    /\ act.val = Str("too large")
    /\ error = Str("too large")

\* C7: a non-success response whose body is not JSON surfaces the generic
\* message 'Failed to merge PDFs'.
C7_UnparseableIsGeneric ==
    [][(act'.op = "jsonSettles" /\ act'.info = "invalid") =>
          error' = Str("Failed to merge PDFs")]_vars

\* the step ends a submission by a failure: fetch rejected, the response had a
\* non-success status, or the body of a success could not be read
FailureStep ==
    \/ act'.op = "fetchSettles" /\ act'.info = "reject"
    \/ act'.op = "jsonSettles"
    \/ act'.op = "blobSettles" /\ act'.info = "reject"

\* C8: the handling of a failed submission leaves the list as it was.
C8_FailureKeepsFiles ==
    [][FailureStep => (files' = files /\ Len(calls') = Len(calls) - 1)]_vars

\* a submission failed on an unparseable body and its files are still staged
C8_Witness ==
    /\ act.op = "jsonSettles"
    /\ act.info = "invalid"
    /\ Len(files) = 2
    /\ calls = <<>>

\* C9: at most one merge request is outstanding, and no step issues more than
\* one request.
C9_AtMostOneRequest == Len(calls) <= 1 /\ Len(out.requests) <= 1

\* a file was added while the request of a submission was pending
C9_Witness ==
    /\ act.op = "handleFileChange"
    /\ Len(act.batch) > 0
    /\ isLoading
    /\ Len(calls) = 1
    /\ Len(files) = 2

\* C10: the in-flight flag is true exactly while a submission is outstanding,
\* and a submission that entered the in-flight state leaves it.
C10_InFlightEnds ==
    /\ [](isLoading <=> Len(calls) > 0)
    /\ isLoading ~> ~isLoading

\* a submission left the in-flight state by a network error
C10_Witness ==
    /\ act.op = "fetchSettles"
    /\ act.info = "reject"
    /\ ~isLoading
    /\ calls = <<>>
    /\ error = Str(NetworkErrorMsg)


\* C11: a drag-leave whose related target is the drop zone or one of its
\* descendants leaves the active-drag flag as it is; one whose related target
\* lies outside the drop zone clears it.
C11_DragLeaveContainment ==
    [][act'.op = "handleDragLeave" =>
          /\ act'.info \in {"dropArea", "child"} => isDragging' = isDragging
          /\ act'.info = "outside" => isDragging' = FALSE]_vars

\* a drag-leave towards a child of the drop zone left the flag set
C11_Witness ==
    /\ act.op = "handleDragLeave"
    /\ act.info = "child"
    /\ isDragging


\* the messages set together with a clear timer (lines 28-29, 88-89)
TimedMessages == {Str(OnlyPdfMsg), Str(EmptyMsg)}

\* C12: a clear timer armed by an earlier error never clears a timed error
\* that was set later.  All timers have the same delay and fire in the order
\* they were armed; a timed error armed the youngest pending timer when it was
\* set, so a timer that fires while another one is pending is an older one.
C12_StaleTimerKeepsLaterError ==
    [][(act'.op = "timerFires" /\ timers > 1 /\ error \in TimedMessages) =>
          error' = error]_vars


\* the messages the catch block of mergePDFs surfaces (line 134)
RemoteMessages == {Str(thrownMessage(body)) : body \in FailureBodies} \cup {Str(NetworkErrorMsg)}

\* C13: an error surfaced by the failure path of a submission is never
\* cleared by a timer callback.
C13_RemoteErrorNotCleared ==
    [][(act'.op = "timerFires" /\ error \in RemoteMessages) => error' = error]_vars


\* the bounds of the model leave room for one more call of mergePDFs
MergeWithinBounds == IF Len(files) = 0 THEN timers < MaxTimers ELSE Len(calls) < MaxCalls

\* C14: a validation or empty-submission error that is visible has a clear
\* timer pending, the callback of a timer empties the slot, so the error is
\* eventually cleared; and while it is visible intake, remove, clear-all and
\* merge remain possible.
C14_TimedErrorClears ==
    /\ [](error \in TimedMessages => timers > 0)
    /\ [][act'.op = "timerFires" => error' = JsNull]_vars
    /\ (error \in TimedMessages) ~> (error \notin TimedMessages)
    /\ [](error \in TimedMessages =>
            /\ ENABLED handleFileChange
            /\ ENABLED callRemoveFile
            /\ ENABLED callClearAllFiles
            /\ (~isLoading /\ MergeWithinBounds) => ENABLED callMergePDFs)

\* a timer callback emptied the slot and no timer is left pending
C14_Witness ==
    /\ act.op = "timerFires"
    /\ error = JsNull
    /\ timers = 0
    /\ files = <<>>
    /\ ~isLoading


\* the step is a call of mergePDFs on a non-empty list
SubmitStep == act'.op = "mergePDFs" /\ Len(files) > 0

\* C15: the body of the request a submission sends has one `files` part per
\* file of the list as it is when mergePDFs is called, in list order; no other
\* step sends a request or changes the body of a request that is pending.
C15_RequestBody ==
    [][IF SubmitStep
          THEN /\ Len(out'.requests) = 1
               /\ Len(out'.requests[1].body) = Len(files)
               /\ \A k \in 1..Len(files) :
                     /\ out'.requests[1].body[k].field = "files"
                     /\ out'.requests[1].body[k].value = files[k]
               /\ calls'[Len(calls')].request = out'.requests[1]
          ELSE /\ out'.requests = <<>>
               /\ Len(calls') = Len(calls) =>
                     \A i \in 1..Len(calls) : calls'[i].request = calls[i].request]_vars

\* the list was cleared while the request for two distinct files was pending
C15_Witness ==
    /\ act.op = "clearAllFiles"
    /\ Len(calls) = 1
    /\ Len(calls[1].request.body) = 2
    /\ calls[1].request.body[1].value # calls[1].request.body[2].value
    /\ files = <<>>


\* C16: a drop returns the drag flag to idle; when it carries files the list
\* and the error slot change as file intake on the dropped collection changes
\* them, and when it carries none the list, the error slot and the timers are
\* left as they were.
C16_Drop ==
    [][act'.op = "handleDrop" =>
          LET dropped == act'.batch
              n == Cardinality(PdfPositions(dropped))
          IN  /\ isDragging' = FALSE
              /\ IF Len(dropped) > 0
                    THEN /\ Len(files') = Len(files) + n
                         /\ SubSeq(files', 1, Len(files)) = files
                         /\ \A k \in 1..n :
                               files'[Len(files) + k] = dropped[NthPdf(dropped, k)]
                         /\ IF n < Len(dropped)
                               THEN error' = Str(OnlyPdfMsg) /\ timers' = timers + 1
                               ELSE error' = error /\ timers' = timers
                    ELSE files' = files /\ error' = error /\ timers' = timers]_vars

\* two files were dropped, one of them rejected, and the drag flag is idle
C16_Witness ==
    /\ act.op = "handleDrop"
    /\ Len(act.batch) = 2
    /\ act.batch[1].type = "application/pdf"
    /\ act.batch[2].type # "application/pdf"
    /\ files = <<act.batch[1]>>
    /\ error = Str(OnlyPdfMsg)
    /\ ~isDragging


\* the handlers of the drag lifecycle events
DragOps == {"handleDragEnter", "handleDragOver", "handleDragLeave", "handleDrop"}

\* C17: the drag flag is changed by drag lifecycle events only, and
\* drag-enter, drag-over and drag-leave leave the list, the error slot and the
\* in-flight flag unchanged.
C17_DragFrame ==
    [][/\ act'.op \notin DragOps => isDragging' = isDragging
       /\ act'.op \in DragOps \ {"handleDrop"} =>
             (files' = files /\ error' = error /\ isLoading' = isLoading)]_vars

\* a drag entered the drop zone while a request was pending and an error shown
C17_Witness ==
    /\ act.op = "handleDragEnter"
    /\ isDragging
    /\ isLoading
    /\ error = Str(OnlyPdfMsg)
    /\ Len(files) = 2


\* C18: an object URL is created by the success path only, once per
\* submission, and revoked in the same run of the handler: no state holds an
\* unreleased URL, and no failure path and no other handler creates one.
C18_ObjectUrlScoped ==
    /\ [](openUrls = 0)
    /\ [][IF SuccessStep
             THEN out'.created = 1 /\ out'.revoked = 1 /\ isLoading' = FALSE
             ELSE out'.created = 0 /\ out'.revoked = 0]_vars

\* a submission ended with a success: one URL was created and revoked
C18_Witness ==
    /\ act.op = "blobSettles"
    /\ act.info = "resolve"
    /\ out.created = 1
    /\ out.revoked = 1
    /\ openUrls = 0
    /\ ~isLoading


\* the files of the request body of a call
SentFiles(call) == {call.request.body[j].value : j \in 1..Len(call.request.body)}

\* C19: every file the success path of a submission removes from the list was
\* part of the request body of that submission (on the page one submission is
\* pending at a time: it is calls[1]).
C19_OnlyMergedFilesDiscarded ==
    [][SuccessStep =>
          \A k \in 1..Len(files) :
              (\A m \in 1..Len(files') : files'[m] # files[k])
                  => files[k] \in SentFiles(calls[1])]_vars

====
